---------------------------- MODULE Spec2Model ----------------------------
(***************************************************************************)
(* State-machine model of collate.py (TRAC-Scraping): the CollationEngine  *)
(* constructor (axis validation, axis selection, the retry loop around     *)
(* create_dataset) and the DataFrame post-processing of clean_dataset.     *)
(*                                                                         *)
(* Row, column and option names are small naturals; their numeric order    *)
(* stands for the lexicographic order of the strings.  Positions are       *)
(* 0-based as in the Python source; TLA+ sequences are 1-based, so the row *)
(* at position p of a list s is s[p + 1].                                  *)
(***************************************************************************)
EXTENDS Integers, Sequences, FiniteSets, TLC

\* ------------------------------------------------------------------ bounds
\* number of rows the site shows in table 1
NT1 == 2
\* number of distinct table-2 row names of the site
NT2 == 2
\* stale element references the browser produces during one run
MaxStale == 2
\* rendered text lines of one table
MaxLines == 3

\* ------------------------------------------------------- program constants
\* Python's None for the integer-valued resume indices
None == -1
\* Python's None for dump_file
NoFile == <<>>
\* NaN cell of a DataFrame
NaN == -1
\* the column label 'Total'; it sorts between the data labels 2 and 4
Total == 3
\* the three axis menus / three requested axes
NAxes == 3

\* ------------------------------------------------------------ dictionaries
\* A Python dict: insertion-ordered keys and the key -> value mapping.
EmptyDict == [keys |-> <<>>, val |-> <<>>]

DictHas(d, k) == k \in DOMAIN d.val

DictGet(d, k) == d.val[k]

\* d[k] = v : a new key is appended, an existing key keeps its position
DictSet(d, k, v) ==
    IF DictHas(d, k)
    THEN [d EXCEPT !.val = [x \in DOMAIN d.val |-> IF x = k THEN v ELSE d.val[x]]]
    ELSE [keys |-> Append(d.keys, k), val |-> (k :> v) @@ d.val]

Range(s) == {s[x] : x \in DOMAIN s}

\* s[n:] for n >= 0 ; Python slicing never raises, it yields [] past the end
SliceFrom(s, n) == IF n >= Len(s) THEN <<>> ELSE SubSeq(s, n + 1, Len(s))

\* the elements of a set of naturals in increasing order
SortedSeq(S) ==
    [n \in 1..Cardinality(S) |->
        CHOOSE x \in S : Cardinality({y \in S : y <= x}) = n]

\* ---------------------------------------------------------------- the site
\* What the web page shows.  Table 1 always shows the rows named 1..NT1 in
\* this order; table 2, after a click on table-1 row a, shows the names of
\* t2set[a] in increasing order (t2set is chosen in Init); table 3, after a
\* click on table-2 row b, shows SiteT3(a, b).
SiteT1 == [p \in 1..NT1 |-> p]

\* the sites that are tried: every table-1 row has every table-2 name; or
\* the last table-1 row has no table-2 row at all and every other table-1
\* row a lacks the table-2 name a (so that positions and names differ)
SiteChoices ==
    {[a \in 1..NT1 |-> 1..NT2],
     [a \in 1..NT1 |-> IF a = NT1 THEN {} ELSE (1..NT2) \ {a}]}

SiteT2(sets, a) == SortedSeq(sets[a])

\* table-3 rows (name, value) in presented order; some pairs show no rows
SiteT3(a, b) ==
    CASE (a + b) % 3 = 0 -> <<>>
      [] (a + b) % 3 = 1 -> << <<1, a>>, <<2, b>> >>
      [] OTHER           -> << <<4, 1>>, <<2, a + b>> >>

\* what every well-formed menu offers
FullOptions == {1, 2, 3}


\* -------------------------------------------------------------- DataFrames
\* A DataFrame with a two-level row index: index is the sequence of
\* (t1, t2) labels, columns the sequence of column labels, cell the values.
RECURSIVE DictOfRows(_, _)
\* {r.name: r.value for r in t3_rows}
DictOfRows(rows, d) ==
    IF rows = <<>> THEN d
    ELSE DictOfRows(Tail(rows), DictSet(d, Head(rows)[1], Head(rows)[2]))

\* the distinct elements of a sequence in order of first appearance
Unique(s) ==
    LET first == {k \in DOMAIN s : \A m \in 1..(k - 1) : s[m] # s[k]}
    IN [n \in 1..Cardinality(first) |->
          s[CHOOSE k \in first : Cardinality({m \in first : m <= k}) = n]]

RECURSIVE FrameIndex(_, _)
\* the row labels of pd.concat({k: pd.DataFrame(v).T ...}): for every key k
\* in dict order, one row per key of data[k]; a key whose inner dict is
\* empty contributes an empty frame, hence no row
FrameIndex(data, ks) ==
    IF ks = <<>> THEN <<>>
    ELSE LET k == Head(ks)
             inner == DictGet(data, k).keys
         IN [x \in 1..Len(inner) |-> <<k, inner[x]>>] \o FrameIndex(data, Tail(ks))

RECURSIVE FrameColumns(_, _)
\* the column labels: the table-3 names of the rows, by first appearance
FrameColumns(data, idx) ==
    IF idx = <<>> THEN <<>>
    ELSE DictGet(DictGet(data, Head(idx)[1]), Head(idx)[2]).keys
         \o FrameColumns(data, Tail(idx))

\* the frame with row labels idx and column labels cols over the data dict:
\* a cell is the recorded value, NaN where the pair has no such table-3 name
MakeFrame(data, idx, cols) ==
    [index   |-> idx,
     columns |-> cols,
     cell    |-> [rc \in Range(idx) \X Range(cols) |->
                    LET t3 == DictGet(DictGet(data, rc[1][1]), rc[1][2])
                    IN IF DictHas(t3, rc[2]) THEN DictGet(t3, rc[2]) ELSE NaN]]

NoFrame == [index |-> <<>>, columns |-> <<>>, cell |-> <<>>]

\* index.unique(level)
UniqueLevel(df, level) == Unique([x \in 1..Len(df.index) |-> df.index[x][level]])

RECURSIVE FromProduct(_, _)
\* pd.MultiIndex.from_product([l1, l2])
FromProduct(l1, l2) ==
    IF l1 = <<>> THEN <<>>
    ELSE [x \in 1..Len(l2) |-> <<Head(l1), l2[x]>>] \o FromProduct(Tail(l1), l2)

\* df.reindex(new_index, axis='index'): rows not in df become all-NaN rows
Reindex(df, newIndex) ==
    [index   |-> newIndex,
     columns |-> df.columns,
     cell    |-> [rc \in Range(newIndex) \X Range(df.columns) |->
                    IF rc \in DOMAIN df.cell THEN df.cell[rc] ELSE NaN]]

\* df.fillna(value=0.0)
FillNa(df) ==
    [df EXCEPT !.cell = [rc \in DOMAIN df.cell |->
                           IF df.cell[rc] = NaN THEN 0 ELSE df.cell[rc]]]

\* lexicographic order of (t1, t2) labels
PairLeq(p, q) == p[1] < q[1] \/ (p[1] = q[1] /\ p[2] <= q[2])

\* a set of (t1, t2) labels in lexicographic order
SortPairs(S) ==
    [n \in 1..Cardinality(S) |->
        CHOOSE x \in S : Cardinality({y \in S : PairLeq(y, x)}) = n]

\* df.sort_index(): rows in lexicographic order of (t1, t2)
SortIndex(df) == [df EXCEPT !.index = SortPairs(Range(df.index))]

\* ------------------------------------------------------------------- state
VARIABLES
    pc,              \* position of the constructor / create_dataset
    error,           \* the exception that ended the run, "" while running
    webpage_type,    \* "object" or "link"
    options,         \* options[m]: option names menu m offers
    axes,            \* the requested axis names
    menuSel,         \* menuSel[m]: option selected in menu m, None if none
    axisIdx,         \* loop variable of "for i, a in enumerate(self.axes)"
    nMenuClicks,     \* click calls on axis menus
    nOptionClicks,   \* click calls on options
    nRowClicks,      \* click calls on table rows, successful or not
    t2set,           \* the site: t2set[a] = table-2 names shown for t1 row a
    dump_file,       \* __init__ local: checkpoint to load, NoFile if none
    current_t1_row,  \* __init__ local
    current_t2_row,  \* __init__ local
    files,           \* checkpoint files on disk: name -> content
    data,            \* create_dataset local
    t1_rows,         \* create_dataset local (row names)
    t2_rows,         \* create_dataset local (row names)
    i,               \* enumerate index of the table-1 loop
    j,               \* enumerate index of the table-2 loop
    exc,             \* the DatasetException in flight
    df,              \* self.df
    staleCount,      \* stale references raised so far
    attempt,         \* calls of create_dataset so far
    t1base,          \* position in table 1 of t1_rows[0] in this attempt
    t2base,          \* position in table 2 of t2_rows[0] for this t1 row
    maxPos,          \* largest table-1 position an earlier attempt reached
    cleanCalls,      \* calls of clean_dataset so far
    df0,             \* self.df as the last call of clean_dataset found it
    timedOut,        \* an element wait has timed out
    rmFailed,        \* some os.remove of a dump file raised OSError
    lastDumped,      \* the dataset as the last failed click dumped it
    recorded,        \* (t1 name, t2 name) pairs recorded in any attempt
    saveCalls,       \* calls of save_dataset so far
    lastT1,          \* table-1 position last clicked in this attempt
    lastT2,          \* table-2 position last clicked under this t1 row
    t1Fresh,         \* t1_rows was fetched after the latest row click
    t2Fresh,         \* t2_rows was fetched after the latest row click
    row_elements,    \* calculate_rows: the located row elements
    text,            \* calculate_rows: web_element.text
    table_rows,      \* calculate_rows: the Row objects it returns
    page_lines       \* the lines the page renders in the table

vars == <<pc, error, webpage_type, options, axes, menuSel, axisIdx,
          nMenuClicks, nOptionClicks, nRowClicks, t2set, dump_file,
          current_t1_row, current_t2_row, files, data, t1_rows, t2_rows,
          i, j, exc, df, staleCount, attempt, t1base, t2base, maxPos,
          cleanCalls, df0, timedOut, rmFailed, lastDumped, recorded,
          saveCalls, lastT1, lastT2, t1Fresh, t2Fresh, row_elements, text,
          table_rows, page_lines>>

setupVars == <<webpage_type, options, axes, t2set>>
clickVars == <<nMenuClicks, nOptionClicks, nRowClicks>>
driverVars == <<dump_file, current_t1_row, current_t2_row>>
localVars == <<data, t1_rows, t2_rows, i, j, t1base, t2base>>
histVars == <<maxPos, cleanCalls, df0, timedOut>>
ckptHist == <<rmFailed, lastDumped, recorded, saveCalls>>
clickHist == <<lastT1, lastT2, t1Fresh, t2Fresh>>
tableVars == <<row_elements, text, table_rows, page_lines>>

\* the exceptions that end the run
AxisError == "ValueError: Axis name could not be found"
ConcatError == "ValueError: No objects to concatenate"

NoExc == [dump_file |-> NoFile, current_t1_row |-> None, current_t2_row |-> None]

\* the requested axis lists that are tried
AxisChoices == {<<3, 1, 2>>}

\* a menu offers all options or lacks option 3
OptionChoices == {FullOptions, FullOptions \ {3}}

Init ==
    /\ pc = "Idle"
    /\ error = ""
    /\ webpage_type \in {"object", "link"}
    /\ options \in [1..NAxes -> OptionChoices]
    /\ axes \in AxisChoices
    /\ menuSel = [m \in 1..NAxes |-> None]
    /\ axisIdx = 0
    /\ nMenuClicks = 0
    /\ nOptionClicks = 0
    /\ nRowClicks = 0
    /\ t2set \in SiteChoices
    /\ dump_file = NoFile
    /\ current_t1_row = None
    /\ current_t2_row = None
    /\ files = <<>>
    /\ data = EmptyDict
    /\ t1_rows = <<>>
    /\ t2_rows = <<>>
    /\ i = 0
    /\ j = 0
    /\ exc = NoExc
    /\ df = NoFrame
    /\ staleCount = 0
    /\ attempt = 0
    /\ t1base = 0
    /\ t2base = 0
    /\ maxPos = 0
    /\ cleanCalls = 0
    /\ df0 = NoFrame
    /\ timedOut = FALSE
    /\ rmFailed = FALSE
    /\ lastDumped = EmptyDict
    /\ recorded = {}
    /\ saveCalls = 0
    /\ lastT1 = None
    /\ lastT2 = None
    /\ t1Fresh = FALSE
    /\ t2Fresh = FALSE
    /\ row_elements = <<>>
    /\ text = <<>>
    /\ table_rows = <<>>
    /\ page_lines = <<>>

\* ------------------------------------------------------- axis menus, setup
\* variant of CalculateOptionsClicks: the menu is opened in both variants
CalculateOptionsClicksBoth(wt) == 1

\* clicks AxisMenu.calculate_options issues: the object variant opens the
\* menu to make its listbox appear, the link variant reads the options
\* without a click
CalculateOptionsClicks(wt) == IF wt = "object" THEN 1 ELSE 0

\* AxisMenu.calculate_all: three AxisMenu(...) constructions, each of which
\* ends with calculate_options()
CalculateMenus ==
    /\ pc = "Idle"
    /\ nMenuClicks' = nMenuClicks + NAxes * CalculateOptionsClicks(webpage_type)
    /\ pc' = "menus"
    /\ UNCHANGED <<error, setupVars, menuSel, axisIdx, nOptionClicks, nRowClicks,
                   driverVars, files, localVars, exc, df, staleCount, attempt,
                   histVars,
                   ckptHist, clickHist, tableVars>>

\* Table.calculate_all
CalculateTables ==
    /\ pc = "menus"
    /\ pc' = "tables"
    /\ UNCHANGED <<error, setupVars, menuSel, axisIdx, clickVars, driverVars,
                   files, localVars, exc, df, staleCount, attempt, histVars,
                   ckptHist, clickHist, tableVars>>

\* "a not in m.option_names" for some menu m and some requested axis a
AxisMissing == \E m \in 1..NAxes : \E a \in Range(axes) : a \notin options[m]

\* the validation loop of __init__
CheckAxes ==
    /\ pc = "tables"
    /\ IF AxisMissing
       THEN pc' = "raised" /\ error' = AxisError
       ELSE pc' = "set_axes" /\ error' = error
    /\ UNCHANGED <<setupVars, menuSel, axisIdx, clickVars, driverVars, files,
                   localVars, exc, df, staleCount, attempt, histVars,
                   ckptHist, clickHist, tableVars>>

\* variant of MenuOfAxis: every axis is set in the first menu
MenuOfAxisFirst(idx) == 0

\* "self.menus[i].set_to(a)": axis number i is set in menu number i
MenuOfAxis(idx) == idx

\* one iteration of "for i, a in enumerate(self.axes): self.menus[i].set_to(a)"
\* set_to opens the menu (object: through calculate_options, link: click())
\* and clicks the first option of that name; option_to_click[0] is an
\* IndexError when the menu has no such option
SetAxis ==
    /\ pc = "set_axes"
    /\ axisIdx < Len(axes)
    /\ nMenuClicks' = nMenuClicks + 1
    /\ IF axes[axisIdx + 1] \in options[MenuOfAxis(axisIdx) + 1]
       THEN /\ nOptionClicks' = nOptionClicks + 1
            /\ menuSel' = [menuSel EXCEPT ![MenuOfAxis(axisIdx) + 1] = axes[axisIdx + 1]]
            /\ axisIdx' = axisIdx + 1
            /\ pc' = IF axisIdx + 1 = Len(axes) THEN "call" ELSE "set_axes"
            /\ error' = error
       ELSE /\ UNCHANGED <<nOptionClicks, menuSel, axisIdx>>
            /\ pc' = "raised"
            /\ error' = "IndexError"
    /\ UNCHANGED <<setupVars, nRowClicks, driverVars, files, localVars,
                   exc, df, staleCount, attempt, histVars,
                   ckptHist, clickHist, tableVars>>

\* ---------------------------------------------------------- create_dataset
Max(a, b) == IF a >= b THEN a ELSE b

\* "if current_X_row != None: rows = rows[current_X_row:]"
ResumeSlice(rows, current_row) ==
    IF current_row # None THEN SliceFrom(rows, current_row) ELSE rows

\* number of leading rows that ResumeSlice drops
ResumeBase(current_row) == IF current_row # None THEN current_row ELSE 0

\* f'data-up-to_T1-{t1_row.name}.json' and
\* f'data-up-to_T1-{t1_row.name}_T2-{t2_row.name}.json'
DumpFileName(t1name, t2name) == <<t1name, t2name>>

\* A JSON object as json.dump writes a dict: its members (key, value) in
\* the dict's order.  The innermost dicts have integer values.
JsonLeaf(d3) ==
    [n \in 1..Len(d3.keys) |-> <<d3.keys[n], DictGet(d3, d3.keys[n])>>]

JsonInner(d2) ==
    [n \in 1..Len(d2.keys) |-> <<d2.keys[n], JsonLeaf(DictGet(d2, d2.keys[n]))>>]

\* variant of JsonDump: only the table-1 level is written
JsonDumpOuter(d) == [n \in 1..Len(d.keys) |-> <<d.keys[n], <<>>>>]

\* json.dump(data, f): three nested objects with integer leaves
JsonDump(d) ==
    [n \in 1..Len(d.keys) |-> <<d.keys[n], JsonInner(DictGet(d, d.keys[n]))>>]

\* the dict json.load builds from the members of a JSON object: keys in
\* order of first appearance, the last member of a key gives its value
\* (the argument is bound once, as s and as m, in the three operators)
LoadMembers(t) ==
    CHOOSE r \in
      {[keys |-> Unique([n \in DOMAIN s |-> s[n][1]]),
        val  |-> [k \in {s[n][1] : n \in DOMAIN s} |->
                    s[CHOOSE n \in DOMAIN s :
                        /\ s[n][1] = k
                        /\ \A m \in DOMAIN s : s[m][1] = k => m <= n][2]]]
       : s \in {t}} : TRUE

LoadInner(t2) ==
    CHOOSE r \in
      {[keys |-> m.keys, val |-> [k \in DOMAIN m.val |-> LoadMembers(m.val[k])]]
       : m \in {LoadMembers(t2)}} : TRUE

\* variant of JsonLoad: only the table-1 level is read back
JsonLoadOuter(t) ==
    CHOOSE r \in
      {[keys |-> m.keys, val |-> [k \in DOMAIN m.val |-> EmptyDict]]
       : m \in {LoadMembers(t)}} : TRUE

\* json.load(f)
JsonLoad(t) ==
    CHOOSE r \in
      {[keys |-> m.keys, val |-> [k \in DOMAIN m.val |-> LoadInner(m.val[k])]]
       : m \in {LoadMembers(t)}} : TRUE

\* variant of RemoveFile: the loaded file is left in place
RemoveNothing(fs, name) == fs

\* os.remove(dump_file) without OSError: the file is gone
RemoveFile(fs, name) == [f \in DOMAIN fs \ {name} |-> fs[f]]

\* variant of CaughtByRetryLoop: the except clause matches nothing
CaughtByNothing(e) == FALSE

\* variant of CaughtByRetryLoop: a bare except, every exception is retried
CaughtByBareExcept(e) == TRUE

\* "except DatasetException as e": the exceptions of create_dataset that the
\* retry loop catches; every other exception leaves the constructor
CaughtByRetryLoop(e) == e = "DatasetException"

\* the call in the retry loop and the head of create_dataset: load the dump
\* file if one is named and try to delete it (an OSError is only reported)
LoadDump ==
    /\ pc = "call"
    /\ attempt' = attempt + 1
    /\ IF dump_file # NoFile
       THEN /\ \E loaded \in {JsonLoad(files[dump_file])} : data' = loaded
            /\ \E removed \in BOOLEAN :
                 /\ files' = IF removed THEN RemoveFile(files, dump_file) ELSE files
                 /\ rmFailed' = (rmFailed \/ ~removed)
       ELSE /\ data' = EmptyDict
            /\ files' = files
            /\ rmFailed' = rmFailed
    /\ lastT1' = None
    /\ lastT2' = None
    /\ pc' = "fetch_t1"
    /\ UNCHANGED <<error, setupVars, menuSel, axisIdx, clickVars, driverVars,
                   t1_rows, t2_rows, i, j, t1base, t2base, exc, df, staleCount,
                   histVars,
                   lastDumped, recorded, saveCalls, t1Fresh, t2Fresh, tableVars>>

\* rows of table 1, minus the rows before current_t1_row
FetchT1 ==
    /\ pc = "fetch_t1"
    /\ t1_rows' = ResumeSlice(SiteT1, current_t1_row)
    /\ t1base' = ResumeBase(current_t1_row)
    /\ i' = 0
    /\ t1Fresh' = TRUE
    /\ pc' = "t1_loop"
    /\ UNCHANGED <<error, setupVars, menuSel, axisIdx, clickVars, driverVars,
                   files, data, t2_rows, j, t2base, exc, df, staleCount, attempt,
                   histVars,
                   ckptHist, lastT1, lastT2, t2Fresh, tableVars>>

\* variant of WithT1Key: the inner mapping is always started afresh
WithT1KeyReset(d, name) == DictSet(d, name, EmptyDict)

\* "if t1_row.name not in data.keys(): data[t1_row.name] = {}"
WithT1Key(d, name) == IF DictHas(d, name) THEN d ELSE DictSet(d, name, EmptyDict)

\* the index the table-1 handler passes to DatasetException: the enumerate
\* index i of the sliced list
RaisedT1Index(idx, base) == idx

\* the index the table-2 handler passes to DatasetException: the enumerate
\* index j of the sliced list
RaisedT2Index(idx, base) == idx

\* head of the table-1 loop body, t1_row.click() succeeds
T1Click ==
    /\ pc = "t1_loop"
    /\ i < Len(t1_rows)
    /\ data' = WithT1Key(data, t1_rows[i + 1])
    /\ nRowClicks' = nRowClicks + 1
    /\ lastT1' = t1base + i
    /\ lastT2' = None
    /\ t1Fresh' = FALSE
    /\ t2Fresh' = FALSE
    /\ pc' = "fetch_t2"
    /\ UNCHANGED <<error, setupVars, menuSel, axisIdx, nMenuClicks, nOptionClicks,
                   driverVars, files, t1_rows, t2_rows, i, j, t1base, t2base, exc,
                   df, staleCount, attempt, histVars,
                   ckptHist, tableVars>>

\* head of the table-1 loop body, t1_row.click() raises
\* StaleElementReferenceException: dump data, raise DatasetException
T1Stale ==
    /\ pc = "t1_loop"
    /\ i < Len(t1_rows)
    /\ staleCount < MaxStale
    /\ LET name == t1_rows[i + 1]
           d    == WithT1Key(data, name)
           file == DumpFileName(name, None)
       IN /\ data' = d
          /\ \E dumped \in {JsonDump(d)} : files' = (file :> dumped) @@ files
          /\ lastDumped' = d
          /\ exc' = [dump_file |-> file,
                     current_t1_row |-> RaisedT1Index(i, t1base),
                     current_t2_row |-> None]
    /\ nRowClicks' = nRowClicks + 1
    /\ lastT1' = t1base + i
    /\ lastT2' = None
    /\ t1Fresh' = FALSE
    /\ t2Fresh' = FALSE
    /\ staleCount' = staleCount + 1
    /\ pc' = "except"
    /\ UNCHANGED <<error, setupVars, menuSel, axisIdx, nMenuClicks, nOptionClicks,
                   driverVars, t1_rows, t2_rows, i, j, t1base, t2base, df, attempt,
                   histVars,
                   rmFailed, recorded, saveCalls, tableVars>>

\* rows of table 2, minus the rows before current_t2_row
FetchT2 ==
    /\ pc = "fetch_t2"
    /\ t2_rows' = ResumeSlice(SiteT2(t2set, t1_rows[i + 1]), current_t2_row)
    /\ t2base' = ResumeBase(current_t2_row)
    /\ j' = 0
    /\ t2Fresh' = TRUE
    /\ pc' = "t2_loop"
    /\ UNCHANGED <<error, setupVars, menuSel, axisIdx, clickVars, driverVars,
                   files, data, t1_rows, i, t1base, exc, df, staleCount, attempt,
                   histVars,
                   ckptHist, lastT1, lastT2, t1Fresh, tableVars>>

\* t2_row.click() succeeds
T2Click ==
    /\ pc = "t2_loop"
    /\ j < Len(t2_rows)
    /\ nRowClicks' = nRowClicks + 1
    /\ lastT2' = t2base + j
    /\ t1Fresh' = FALSE
    /\ t2Fresh' = FALSE
    /\ pc' = "fetch_t3"
    /\ UNCHANGED <<error, setupVars, menuSel, axisIdx, nMenuClicks, nOptionClicks,
                   driverVars, files, localVars, exc, df, staleCount, attempt,
                   histVars,
                   ckptHist, lastT1, tableVars>>

\* t2_row.click() raises StaleElementReferenceException
T2Stale ==
    /\ pc = "t2_loop"
    /\ j < Len(t2_rows)
    /\ staleCount < MaxStale
    /\ LET file == DumpFileName(t1_rows[i + 1], t2_rows[j + 1])
       IN /\ \E dumped \in {JsonDump(data)} : files' = (file :> dumped) @@ files
          /\ lastDumped' = data
          /\ exc' = [dump_file |-> file,
                     current_t1_row |-> RaisedT1Index(i, t1base),
                     current_t2_row |-> RaisedT2Index(j, t2base)]
    /\ nRowClicks' = nRowClicks + 1
    /\ lastT2' = t2base + j
    /\ t1Fresh' = FALSE
    /\ t2Fresh' = FALSE
    /\ staleCount' = staleCount + 1
    /\ pc' = "except"
    /\ UNCHANGED <<error, setupVars, menuSel, axisIdx, nMenuClicks, nOptionClicks,
                   driverVars, localVars, df, attempt, histVars,
                   rmFailed, recorded, saveCalls, lastT1, tableVars>>

\* data[t1_row.name][t2_row.name] = {r.name: r.value for r in t3_rows}
RecordPair(d, t1name, t2name, t3rows) ==
    DictSet(d, t1name, DictSet(DictGet(d, t1name), t2name, DictOfRows(t3rows, EmptyDict)))

\* variant of NextIndex: the loop does not advance
NextIndexSame(idx) == idx

\* enumerate(...): the index of the next loop iteration
NextIndex(idx) == idx + 1

\* rows of table 3 are read and stored; next table-2 row
FetchT3 ==
    /\ pc = "fetch_t3"
    /\ LET t1name == t1_rows[i + 1]
           t2name == t2_rows[j + 1]
       IN /\ data' = RecordPair(data, t1name, t2name, SiteT3(t1name, t2name))
          /\ recorded' = recorded \cup {<<t1name, t2name>>}
    /\ j' = NextIndex(j)
    /\ pc' = "t2_loop"
    /\ UNCHANGED <<error, setupVars, menuSel, axisIdx, clickVars, driverVars,
                   files, t1_rows, t2_rows, i, t1base, t2base, exc, df, staleCount,
                   attempt, histVars,
                   rmFailed, lastDumped, saveCalls, clickHist, tableVars>>

\* the table-2 loop is exhausted: next table-1 row
T2LoopEnd ==
    /\ pc = "t2_loop"
    /\ j >= Len(t2_rows)
    /\ i' = NextIndex(i)
    /\ pc' = "t1_loop"
    /\ UNCHANGED <<error, setupVars, menuSel, axisIdx, clickVars, driverVars,
                   files, data, t1_rows, t2_rows, j, t1base, t2base, exc, df,
                   staleCount, attempt, histVars,
                   ckptHist, clickHist, tableVars>>

\* an element wait exceeds TIMEOUT: in calculate_rows of any of the three
\* tables, or in Row.click of the link variant.  The retry loop does not
\* catch TimeoutException, so the constructor ends with it.
WaitTimesOut ==
    /\ \/ pc \in {"fetch_t1", "fetch_t2", "fetch_t3"}
       \/ webpage_type = "link" /\ pc = "t1_loop" /\ i < Len(t1_rows)
       \/ webpage_type = "link" /\ pc = "t2_loop" /\ j < Len(t2_rows)
    /\ timedOut' = TRUE
    /\ IF CaughtByRetryLoop("TimeoutException")
       THEN pc' = "call" /\ error' = error
       ELSE pc' = "raised" /\ error' = "TimeoutException"
    /\ UNCHANGED <<setupVars, menuSel, axisIdx, clickVars, driverVars, files,
                   localVars, exc, df, staleCount, attempt, maxPos, cleanCalls,
                   df0,
                   ckptHist, clickHist, tableVars>>

\* the table-1 loop is exhausted: self.data = data, self.df = pd.concat(...):
\* rows by dict order, columns by first appearance.  pd.concat raises
\* ValueError when given no frames (an empty data dict)
BuildFrame ==
    /\ pc = "t1_loop"
    /\ i >= Len(t1_rows)
    /\ IF data.keys = <<>>
       THEN pc' = "raised" /\ error' = ConcatError /\ df' = df
       ELSE /\ pc' = "returned"
            /\ error' = error
            /\ \E idx \in {FrameIndex(data, data.keys)} :
               \E labels \in {FrameColumns(data, idx)} :
               \E cols \in {Unique(labels)} :
                 df' = MakeFrame(data, idx, cols)
    /\ UNCHANGED <<setupVars, menuSel, axisIdx, clickVars, driverVars, files,
                   localVars, exc, staleCount, attempt, histVars,
                   ckptHist, clickHist, tableVars>>

\* "except DatasetException as e": take over the three values and loop
HandleDatasetException ==
    /\ pc = "except"
    /\ IF CaughtByRetryLoop("DatasetException")
       THEN /\ dump_file' = exc.dump_file
            /\ current_t1_row' = exc.current_t1_row
            /\ current_t2_row' = exc.current_t2_row
            /\ pc' = "call"
            /\ error' = error
       ELSE /\ UNCHANGED driverVars
            /\ pc' = "raised"
            /\ error' = "DatasetException"
    /\ exc' = NoExc
    /\ maxPos' = Max(maxPos, t1base + i)
    /\ UNCHANGED <<setupVars, menuSel, axisIdx, clickVars, files, localVars, df,
                   staleCount, attempt, cleanCalls, df0, timedOut,
                   ckptHist, clickHist, tableVars>>

\* "else: break", then self.clean_dataset(): reindex to the cross product,
\* fillna, sort_index, and then line 484, which calls the builtin sorted()
\* with the keyword axis=1.  sorted() rejects that keyword with a TypeError
\* whatever its argument, so the Total column, the int cast, the index
\* names, save_dataset and driver.close() are never executed.
CleanDataset ==
    /\ pc = "returned"
    /\ cleanCalls' = cleanCalls + 1
    /\ df0' = df
    /\ \E unique_index1 \in {UniqueLevel(df, 1)} :
       \E unique_index2 \in {UniqueLevel(df, 2)} :
       \E new_index \in {FromProduct(unique_index1, unique_index2)} :
       \E df1 \in {Reindex(df, new_index)} :
       \E df2 \in {FillNa(df1)} :
       \E df3 \in {SortIndex(df2)} :
         df' = df3
    /\ error' = "TypeError"
    /\ pc' = "raised"
    /\ UNCHANGED <<setupVars, menuSel, axisIdx, clickVars, driverVars, files,
                   localVars, exc, staleCount, attempt, maxPos, timedOut,
                   ckptHist, clickHist, tableVars>>

Next ==
    \/ CalculateMenus
    \/ CalculateTables
    \/ CheckAxes
    \/ SetAxis
    \/ LoadDump
    \/ FetchT1
    \/ T1Click
    \/ T1Stale
    \/ FetchT2
    \/ T2Click
    \/ T2Stale
    \/ FetchT3
    \/ T2LoopEnd
    \/ WaitTimesOut
    \/ BuildFrame
    \/ HandleDatasetException
    \/ CleanDataset

Spec == Init /\ [][Next]_vars

\* the constructor is sequential code that keeps running until it returns
\* or raises
FairSpec == Spec /\ WF_vars(Next)

\* ------------------------------------------- clean_dataset on its own inputs
\* the sequences without repetition over a set
InjSeqs(S) ==
    {s \in UNION {[1..n -> S] : n \in 0..Cardinality(S)} :
        \A a, b \in DOMAIN s : a # b => s[a] # s[b]}

\* table-3 dicts a pair can hold: no row, one row, two rows out of order
T3Choice(n) ==
    CASE n % 3 = 0 -> EmptyDict
      [] n % 3 = 1 -> DictOfRows(<< <<1, 1>> >>, EmptyDict)
      [] OTHER     -> DictOfRows(<< <<4, 1>>, <<2, 2>> >>, EmptyDict)

\* an inner mapping of table-1 name k: the table-2 names of the sequence ks2
\* except those b with (k + b) % 3 = h, each holding T3Choice(k + b + p)
InnerDict(k, ks2, h, p) ==
    LET kept == SelectSeq(ks2, LAMBDA b : (k + b) % 3 # h)
    IN [keys |-> kept, val |-> [b \in Range(kept) |-> T3Choice(k + b + p)]]

\* the raw datasets create_dataset can hand over: table-1 names ks and
\* table-2 names ks2 in any insertion order, table-1 name g (if any) with an
\* empty inner mapping, some pairs never recorded (h), some pairs without
\* table-3 rows (p)
RawDatasets ==
    {[keys |-> ks,
      val  |-> [k \in Range(ks) |->
                  IF k = g THEN EmptyDict ELSE InnerDict(k, ks2, h, p)]] :
        ks \in InjSeqs(1..NT1), ks2 \in InjSeqs(1..NT2),
        g \in 0..NT1, h \in 0..3, p \in 0..2}

RECURSIVE SumCells(_, _, _)
\* the sum of row r of frame f over the columns of the sequence cols
SumCells(f, r, cols) ==
    IF cols = <<>> THEN 0
    ELSE f.cell[<<r, Head(cols)>>] + SumCells(f, r, Tail(cols))

\* the columns of a frame other than Total
DataColumns(f) == SelectSeq(f.columns, LAMBDA c : c # Total)

\* NormalizedDataset of the design: full cross product in sorted order, data
\* columns sorted and Total last, no missing cell, Total is the row sum
IsNormalized(f) ==
    /\ f.index = SortPairs(Range(UniqueLevel(f, 1)) \X Range(UniqueLevel(f, 2)))
    /\ f.index # <<>>
    /\ f.columns = SortedSeq(Range(f.columns) \ {Total}) \o <<Total>>
    /\ \A rc \in DOMAIN f.cell : f.cell[rc] # NaN
    /\ \A r \in Range(f.index) : f.cell[<<r, Total>>] = SumCells(f, r, DataColumns(f))

\* the normalized frame with rows S1 x S2, data columns C and data cells v
NormalizedFrame(S1, S2, C, v) ==
    LET cols == SortedSeq(C)
        raw  == [index |-> SortPairs(S1 \X S2), columns |-> cols, cell |-> v]
    IN [index   |-> raw.index,
        columns |-> cols \o <<Total>>,
        cell    |-> [rc \in (S1 \X S2) \X (C \cup {Total}) |->
                       IF rc[2] = Total THEN SumCells(raw, rc[1], cols) ELSE v[rc]]]

\* the normalized frames that are tried: any rows S1 x S2, data columns
\* among 1 and 4, the cell of row (a, b) and column c being
\* (x * a + y * b + z * c) % 3
NormalizedFrames ==
    {NormalizedFrame(S1, S2, C,
        [rc \in (S1 \X S2) \X C |-> (w[1] * rc[1][1] + w[2] * rc[1][2] + w[3] * rc[2]) % 3]) :
        S1 \in SUBSET (1..NT1) \ {{}}, S2 \in SUBSET (1..NT2) \ {{}},
        C \in SUBSET {1, 4}, w \in (0..2) \X (0..2) \X (0..2)}

\* create_dataset is about to build self.df from a raw dataset, or self.df
\* already holds a normalized frame and clean_dataset is about to run
InitN ==
    /\ error = ""
    /\ webpage_type = "object"
    /\ options = [m \in 1..NAxes |-> FullOptions]
    /\ axes = <<1, 2, 3>>
    /\ menuSel = [m \in 1..NAxes |-> axes[m]]
    /\ axisIdx = NAxes
    /\ nMenuClicks = 2 * NAxes
    /\ nOptionClicks = NAxes
    /\ nRowClicks = 0
    /\ t2set = [a \in 1..NT1 |-> {}]
    /\ dump_file = NoFile
    /\ current_t1_row = None
    /\ current_t2_row = None
    /\ files = <<>>
    /\ t1_rows = <<>>
    /\ t2_rows = <<>>
    /\ i = 0
    /\ j = 0
    /\ exc = NoExc
    /\ staleCount = 0
    /\ attempt = 1
    /\ t1base = 0
    /\ t2base = 0
    /\ maxPos = 0
    /\ cleanCalls = 0
    /\ df0 = NoFrame
    /\ timedOut = FALSE
    /\ rmFailed = FALSE
    /\ lastDumped = EmptyDict
    /\ recorded = {}
    /\ saveCalls = 0
    /\ lastT1 = None
    /\ lastT2 = None
    /\ t1Fresh = FALSE
    /\ t2Fresh = FALSE
    /\ row_elements = <<>>
    /\ text = <<>>
    /\ table_rows = <<>>
    /\ page_lines = <<>>
    /\ \/ pc = "t1_loop" /\ data \in RawDatasets /\ df = NoFrame
       \/ pc = "returned" /\ data = EmptyDict /\ df \in NormalizedFrames

NextN ==
    \/ BuildFrame
    \/ CleanDataset

SpecN == InitN /\ [][NextN]_vars

\* ------------------------------------------------------ Table.calculate_rows
\* Text is a sequence of one-character strings.
NL == "\n"
StrAll == <<"A", "l", "l">>
StrTotal == <<"T", "o", "t", "a", "l">>
Digits == <<"0", "1", "2", "3", "4", "5", "6", "7", "8", "9">>

\* "sub in s"
Contains(s, sub) ==
    \E k \in 0..(Len(s) - Len(sub)) : SubSeq(s, k + 1, k + Len(sub)) = sub

\* the local function is_meaningful of calculate_rows
is_meaningful(t) == t # <<>> /\ ~Contains(t, StrAll) /\ ~Contains(t, StrTotal)

\* s.split(sep) for a one-character separator: one piece more than there
\* are separators, empty pieces included
Split(s, sep) ==
    LET P  == {k \in DOMAIN s : s[k] = sep}
        ps == SortedSeq(P)
    IN [n \in 1..(Cardinality(P) + 1) |->
          SubSeq(s, (IF n = 1 THEN 0 ELSE ps[n - 1]) + 1,
                    (IF n = Cardinality(P) + 1 THEN Len(s) + 1 ELSE ps[n]) - 1)]

\* text.rsplit(' ', 1): the pieces before and after the last space, or the
\* text alone when it has no space
RSplit1(t) ==
    LET P == {k \in DOMAIN t : t[k] = " "}
    IN IF P = {} THEN <<t>>
       ELSE LET k == CHOOSE x \in P : \A y \in P : y <= x
            IN <<SubSeq(t, 1, k - 1), SubSeq(t, k + 1, Len(t))>>

\* value.replace(',', '')
StripCommas(v) == SelectSeq(v, LAMBDA c : c # ",")

IsDigits(v) == v # <<>> /\ \A k \in DOMAIN v : v[k] \in Range(Digits)

DigitValue(c) == (CHOOSE k \in DOMAIN Digits : Digits[k] = c) - 1

\* int(v) of the first n characters of a string of decimal digits
RECURSIVE IntOf(_, _)
IntOf(v, n) == IF n = 0 THEN 0 ELSE 10 * IntOf(v, n - 1) + DigitValue(v[n])

\* Row.__init__ unpacks two pieces and converts the second: a text without
\* a space, or with anything but digits and commas after its last space,
\* is a ValueError
RowParses(t) == Len(RSplit1(t)) = 2 /\ IsDigits(StripCommas(RSplit1(t)[2]))

\* Row(e, t, table_type)
Row(e, t) ==
    [web_element |-> e,
     name  |-> RSplit1(t)[1],
     value |-> IntOf(StripCommas(RSplit1(t)[2]), Len(StripCommas(RSplit1(t)[2])))]

\* s[n:] for any integer n: a negative n counts from the end
SliceFromAny(s, n) == SliceFrom(s, IF n < 0 THEN Max(Len(s) + n, 0) ELSE n)

\* zip(a, b) stops at the end of the shorter list
Zip(a, b) ==
    [n \in 1..(IF Len(a) <= Len(b) THEN Len(a) ELSE Len(b)) |-> <<a[n], b[n]>>]

\* the lines a page can render, each with what a reader of the page takes
\* it to mean: a data row with this name and this count, or no data row
Line(chars, isData, name, value) ==
    [line |-> chars, data |-> isData, name |-> name, value |-> value]

LinePool ==
    {Line(<<>>, FALSE, <<>>, 0),
     Line(<<"A", "l", "l", " ", "1", "0", "0">>, FALSE, <<>>, 0),
     Line(<<"T", "o", "t", "a", "l", " ", "5", "0">>, FALSE, <<>>, 0),
     Line(<<"G", " ", "T", "o", "t", "a", "l", " ", "9">>, FALSE, <<>>, 0),
     Line(<<"M", "e", "x", "i", "c", "o", " ", "1", ",", "2", "3", "4">>,
          TRUE, <<"M", "e", "x", "i", "c", "o">>, 1234),
     Line(<<"N", " ", "M", " ", "1", "2">>, TRUE, <<"N", " ", "M">>, 12),
     Line(<<"A", "l", " ", "7">>, TRUE, <<"A", "l">>, 7)}

\* web_element.text: the rendered lines joined by newlines
RECURSIVE Join(_)
Join(ls) ==
    IF ls = <<>> THEN <<>>
    ELSE IF Len(ls) = 1 THEN ls[1].line
    ELSE ls[1].line \o <<NL>> \o Join(Tail(ls))

\* a table whose rows are about to be calculated: the wait has returned
\* at least one row element
InitR ==
    /\ pc = "calc_rows"
    /\ error = ""
    /\ webpage_type \in {"object", "link"}
    /\ options = [m \in 1..NAxes |-> FullOptions]
    /\ axes = <<1, 2, 3>>
    /\ menuSel = [m \in 1..NAxes |-> axes[m]]
    /\ axisIdx = NAxes
    /\ nMenuClicks = 0
    /\ nOptionClicks = NAxes
    /\ nRowClicks = 0
    /\ t2set = [a \in 1..NT1 |-> {}]
    /\ dump_file = NoFile
    /\ current_t1_row = None
    /\ current_t2_row = None
    /\ files = <<>>
    /\ data = EmptyDict
    /\ t1_rows = <<>>
    /\ t2_rows = <<>>
    /\ i = 0
    /\ j = 0
    /\ exc = NoExc
    /\ df = NoFrame
    /\ staleCount = 0
    /\ attempt = 1
    /\ t1base = 0
    /\ t2base = 0
    /\ maxPos = 0
    /\ cleanCalls = 0
    /\ df0 = NoFrame
    /\ timedOut = FALSE
    /\ rmFailed = FALSE
    /\ lastDumped = EmptyDict
    /\ recorded = {}
    /\ saveCalls = 0
    /\ lastT1 = None
    /\ lastT2 = None
    /\ t1Fresh = FALSE
    /\ t2Fresh = FALSE
    /\ \E n \in 0..MaxLines : page_lines \in [1..n -> LinePool]
    /\ text = Join(page_lines)
    /\ \E e \in 1..(MaxLines + 1) : row_elements = [k \in 1..e |-> k]
    /\ table_rows = <<>>

\* the body of calculate_rows after the wait: filter the text lines, drop
\* len(row_elements) - len(text_rows) elements from the front, build a Row
\* from each (element, text) pair
CalculateRows ==
    /\ pc = "calc_rows"
    /\ \E text_rows \in {SelectSeq(Split(text, NL), is_meaningful)} :
       \E n_elements_to_skip \in {Len(row_elements) - Len(text_rows)} :
       \E pairs \in {Zip(SliceFromAny(row_elements, n_elements_to_skip), text_rows)} :
         IF \A k \in DOMAIN pairs : RowParses(pairs[k][2])
         THEN /\ table_rows' = [k \in DOMAIN pairs |-> Row(pairs[k][1], pairs[k][2])]
              /\ pc' = "rows_done"
              /\ error' = error
         ELSE /\ table_rows' = table_rows
              /\ pc' = "raised"
              /\ error' = "ValueError"
    /\ UNCHANGED <<setupVars, menuSel, axisIdx, clickVars, driverVars, files,
                   localVars, exc, df, staleCount, attempt, histVars, ckptHist,
                   clickHist, row_elements, text, page_lines>>

NextR == CalculateRows

SpecR == InitR /\ [][NextR]_vars

\* the data rows of the rendered lines, in presented order
DataLines == SelectSeq(page_lines, LAMBDA l : l.data)

\* ------------------------------------------------------------------ claims
\* create_dataset is between its table-1 fetch and its return or raise
InAttempt == pc \in {"t1_loop", "fetch_t2", "t2_loop", "fetch_t3", "except"}

\* the table-1 names and the table-2 names present in a raw dataset
T1Names(d) == Range(d.keys)

T2Names(d) == UNION {Range(DictGet(d, k).keys) : k \in Range(d.keys)}

\* C1: when create_dataset returns (the retry loop exits), the dataset has an
\* entry for every (table-1 row, table-2 row) pair the site shows, and the
\* entry is the table-3 rows shown for that pair.
C1_NoDataLoss ==
    pc = "returned" =>
        \A a \in 1..NT1 : \A b \in t2set[a] :
            /\ DictHas(data, a)
            /\ DictHas(DictGet(data, a), b)
            /\ DictGet(DictGet(data, a), b) = DictOfRows(SiteT3(a, b), EmptyDict)

\* C2: for every table-1 row of an attempt after the first one, the table-2
\* traversal starts at table-2 position 0.
C2_T2ResumeFirstRowOnly ==
    (pc \in {"t2_loop", "fetch_t3"} /\ i > 0) => t2base = 0

\* C3: the table-1 position at which an attempt starts is never smaller than
\* the position at which an earlier attempt started or failed.
C3_NoReprocessing == InAttempt => t1base >= maxPos

\* C4: a DatasetException always leads to another call of create_dataset,
\* and once the retry loop is entered the run reaches the end of the loop
\* and the call of clean_dataset unless an element wait times out.
C4_RetryUntilCompleted ==
    /\ [][pc = "except" => pc' = "call"]_vars
    /\ (pc = "call") ~> (cleanCalls > 0 \/ timedOut)

C4_Witness == cleanCalls > 0 /\ staleCount > 1 /\ attempt > 2

\* C5 as stated: when a requested axis name is missing from a menu, the run
\* fails with the axis error and no click of any kind has been issued.
C5_NoClickBeforeAxisError ==
    error = AxisError => nMenuClicks + nOptionClicks + nRowClicks = 0

\* C5 amended: when a requested axis name is missing from a menu, the run
\* fails with the axis error before any option is clicked, any axis is
\* selected or any table row is clicked; the link variant has issued no
\* click at all, the object variant exactly the one menu-opening click per
\* menu that reading its options takes.
C5_AxisErrorBeforeSelection ==
    error = AxisError =>
        /\ pc = "raised"
        /\ AxisMissing
        /\ nOptionClicks = 0
        /\ nRowClicks = 0
        /\ \A m \in 1..NAxes : menuSel[m] = None
        /\ nMenuClicks = (IF webpage_type = "object" THEN NAxes ELSE 0)
        /\ attempt = 0

C5_Witness == error = AxisError /\ webpage_type = "object" /\ nMenuClicks = NAxes

\* C6: once an element wait has timed out during a traversal attempt the run
\* is over with the TimeoutException: no further attempt starts and
\* clean_dataset (and with it save_dataset) is never called.
C6_TimeoutAborts ==
    /\ [](timedOut => (pc = "raised" /\ error = "TimeoutException" /\ cleanCalls = 0))
    /\ [][timedOut => (attempt' = attempt /\ cleanCalls' = cleanCalls)]_vars

C6_Witness == timedOut /\ pc = "raised" /\ attempt > 1 /\ data.keys # <<>>

\* C7: after clean_dataset ran on the frame of a raw dataset, the rows of
\* self.df are exactly the cross product of the table-1 names and the
\* table-2 names of the raw dataset, |T1| x |T2| rows, a table-1 name with an
\* empty inner mapping included.
C7_CrossProduct ==
    (cleanCalls > 0 /\ data.keys # <<>>) =>
        /\ Range(df.index) = T1Names(data) \X T2Names(data)
        /\ Len(df.index) = Cardinality(T1Names(data)) * Cardinality(T2Names(data))

\* C8: after clean_dataset ran on the frame of a raw dataset, every row has
\* a value for every column, a cell without a collected value is 0, and a
\* pair without table-3 data has all data columns 0 and Total 0.
C8_GapFilled ==
    (cleanCalls > 0 /\ data.keys # <<>>) =>
        \A r \in Range(df.index) :
            LET has == DictHas(data, r[1]) /\ DictHas(DictGet(data, r[1]), r[2])
                t3  == IF has THEN DictGet(DictGet(data, r[1]), r[2]) ELSE EmptyDict
            IN /\ \A c \in Range(DataColumns(df)) :
                    /\ <<r, c>> \in DOMAIN df.cell
                    /\ df.cell[<<r, c>>] = (IF DictHas(t3, c) THEN DictGet(t3, c) ELSE 0)
               /\ <<r, Total>> \in DOMAIN df.cell
               /\ (t3 = EmptyDict => df.cell[<<r, Total>>] = 0)

\* C9: after clean_dataset ran, every row has a Total and it is the sum of
\* the row's data columns.
C9_TotalIsRowSum ==
    cleanCalls > 0 =>
        \A r \in Range(df.index) :
            /\ <<r, Total>> \in DOMAIN df.cell
            /\ df.cell[<<r, Total>>] = SumCells(df, r, DataColumns(df))

\* C10: clean_dataset applied to an already-normalized frame completes and
\* leaves the frame as it was.
C10_Idempotent ==
    (cleanCalls > 0 /\ IsNormalized(df0)) => (error = "" /\ df = df0)


\* C11: calculate_rows returns one Row for exactly the rendered lines that
\* are non-empty and contain neither "All" nor "Total", in presented order;
\* the name is the text before the last space, the value the integer after
\* it with the thousands separators removed.
C11_RowsAreTheDataLines ==
    pc = "rows_done" =>
        /\ Len(table_rows) = Len(DataLines)
        /\ \A k \in DOMAIN table_rows :
              /\ table_rows[k].name = DataLines[k].name
              /\ table_rows[k].value = DataLines[k].value

\* a step that calls create_dataset (the head of an attempt)
AttemptStarts == attempt' = attempt + 1

\* a step that clicks a row of table 1 / of table 2
ClicksT1Row == pc = "t1_loop" /\ nRowClicks' = nRowClicks + 1

ClicksT2Row == pc = "t2_loop" /\ nRowClicks' = nRowClicks + 1

\* a step that reads table 3 and records the pair
ReadsT3 == pc = "fetch_t3" /\ pc' = "t2_loop"

\* the (t1 name, t2 name) pairs a raw dataset has an entry for
PairsOf(d) ==
    UNION {{<<a, b>> : b \in Range(DictGet(d, a).keys)} : a \in Range(d.keys)}

\* C12: a checkpoint file is written only by a stale row click; the next
\* attempt, and only it, loads what that click dumped (the first attempt
\* loads nothing); the file is deleted right after the load; a failed
\* deletion does not end the run; when create_dataset returns and every
\* deletion succeeded, no checkpoint file is left.
C12_CheckpointLifecycle ==
    /\ [][(\E f \in DOMAIN files' : f \notin DOMAIN files \/ files'[f] # files[f])
            => /\ ClicksT1Row \/ ClicksT2Row
               /\ staleCount' = staleCount + 1
               /\ pc' = "except"]_vars
    /\ [][AttemptStarts
            => /\ data' = IF attempt = 0 THEN EmptyDict ELSE lastDumped
               /\ (attempt > 0) = (dump_file # NoFile)
               /\ dump_file \notin DOMAIN files' \/ rmFailed'
               /\ pc' = "fetch_t1"
               /\ error' = error]_vars
    /\ [](pc = "returned" /\ ~rmFailed => files = <<>>)

C12_Witness ==
    /\ pc = "returned"
    /\ attempt = 3
    /\ ~rmFailed
    /\ files = <<>>
    /\ lastDumped # EmptyDict

\* C13: menu i is set to the i-th requested axis name, once; the three
\* selections are complete before the first row click; during the
\* traversal attempts no axis menu and no option is clicked.
C13_AxesSelectedOnce ==
    /\ [](nRowClicks > 0 \/ attempt > 0
            => /\ \A m \in 1..NAxes : menuSel[m] = axes[m]
               /\ axisIdx = NAxes
               /\ nOptionClicks = NAxes)
    /\ [][pc = "call" \/ attempt > 0
            => /\ menuSel' = menuSel
               /\ nMenuClicks' = nMenuClicks
               /\ nOptionClicks' = nOptionClicks]_vars

C13_Witness ==
    /\ pc = "returned"
    /\ attempt = 2
    /\ nRowClicks > NT1
    /\ menuSel = axes

\* C14: within an attempt the table-1 rows are clicked in strictly
\* increasing position and, between two table-1 clicks, the table-2 rows
\* in strictly increasing position; table 3 is read only after a table-1
\* click and then a table-2 click of the same attempt.
C14_ClickOrder ==
    /\ [][ClicksT1Row => t1base + i > lastT1]_vars
    /\ [][ClicksT2Row => lastT1 = t1base + i /\ t2base + j > lastT2]_vars
    /\ [][ReadsT3 => lastT1 = t1base + i /\ lastT2 = t2base + j]_vars

C14_Witness ==
    /\ pc = "t2_loop"
    /\ lastT1 = NT1 - 1
    /\ lastT2 = NT2 - 1
    /\ attempt = 2
    /\ j = Len(t2_rows)

\* C15: the DatasetException of a failed click carries the position of the
\* failing row in table 1 and in table 2 (None after a table-1 failure),
\* and the next attempt begins at that position.
C15_ResumeAtFailingPosition ==
    /\ pc = "except"
         => exc.current_t1_row = lastT1 /\ exc.current_t2_row = lastT2
    /\ pc = "call" /\ attempt > 0 => current_t1_row = lastT1

\* C16: when create_dataset raises DatasetException, the file the exception
\* names exists and holds the in-memory dataset, which has every pair
\* recorded so far.
C16_CheckpointBeforeRaise ==
    pc = "except" =>
        /\ exc.dump_file \in DOMAIN files
        /\ JsonLoad(files[exc.dump_file]) = data
        /\ recorded \subseteq PairsOf(data)

C16_Witness ==
    /\ pc = "except"
    /\ attempt = 2
    /\ Cardinality(recorded) >= 2
    /\ \E a \in Range(data.keys) : \E b \in Range(DictGet(data, a).keys) :
          DictGet(DictGet(data, a), b) # EmptyDict

\* C17: once the traversal has returned and the run has ended, the dataset
\* has been normalized exactly once and written to the sink exactly once.
C17_NormalizedAndSavedOnce ==
    /\ cleanCalls > 0 \/ saveCalls > 0 => df0 # NoFrame
    /\ pc = "raised" /\ df0 # NoFrame => cleanCalls = 1 /\ saveCalls = 1

\* C18: every click on a row of table 1 or table 2 uses a Row from a fetch
\* of that table made after the most recent row click.
C18_FreshRowReferences ==
    [][(ClicksT1Row => t1Fresh) /\ (ClicksT2Row => t2Fresh)]_vars

\* C19: recording a pair sets that pair's entry and leaves every other
\* entry as it was; entering a table-1 row whose name is already a key
\* leaves the dataset, and with it the row's inner mapping, unchanged.
C19_RecordTouchesOnePair ==
    /\ [][ReadsT3 =>
            LET a == t1_rows[i + 1]
                b == t2_rows[j + 1]
            IN /\ PairsOf(data') = PairsOf(data) \cup {<<a, b>>}
               /\ DictGet(DictGet(data', a), b) = DictOfRows(SiteT3(a, b), EmptyDict)
               /\ \A q \in PairsOf(data) \ {<<a, b>>} :
                     DictGet(DictGet(data', q[1]), q[2]) = DictGet(DictGet(data, q[1]), q[2])
               /\ Range(data'.keys) = Range(data.keys)]_vars
    /\ [][ClicksT1Row =>
            IF DictHas(data, t1_rows[i + 1])
            THEN data' = data
            ELSE /\ DictGet(data', t1_rows[i + 1]) = EmptyDict
                 /\ \A a \in Range(data.keys) : DictGet(data', a) = DictGet(data, a)]_vars

C19_Witness ==
    /\ pc = "fetch_t2"
    /\ attempt = 2
    /\ DictGet(data, t1_rows[i + 1]) # EmptyDict
    /\ Cardinality(PairsOf(data)) >= 2

\* C20: a pair recorded in any attempt is in the dataset ever after; the
\* pairs a resumed attempt starts with are the pairs of the failed attempt.
C20_DatasetOnlyGrows ==
    /\ [](recorded \subseteq PairsOf(data))
    /\ [][AttemptStarts /\ attempt > 0 => PairsOf(data') = PairsOf(data)]_vars
    /\ [][PairsOf(data) \subseteq PairsOf(data')]_vars

C20_Witness ==
    /\ pc = "fetch_t1"
    /\ attempt = 3
    /\ Cardinality(recorded) >= 2

\* the raw dataset has at least one recorded table-3 value
HasT3Value(d) ==
    \E q \in PairsOf(d) : DictGet(DictGet(d, q[1]), q[2]).keys # <<>>

\* C21: clean_dataset, called on the frame of a raw dataset that has at
\* least one table-3 value, completes, and then the data columns are in
\* increasing order and Total is the last column.
C21_ColumnsSortedTotalLast ==
    (cleanCalls > 0 /\ HasT3Value(data)) =>
        /\ error = ""
        /\ df.columns = SortedSeq(Range(df.columns) \ {Total}) \o <<Total>>

\* text_rows of calculate_rows after the filter
FilteredLines == SelectSeq(Split(text, NL), is_meaningful)

\* C22: with E row elements and L filtered text lines, calculate_rows
\* returns exactly L Rows, and the k-th Row is made of the element at
\* position (E - L) + k and the k-th filtered line, the first E - L
\* elements being dropped; for every E and L, E < L included.
C22_ElementTextAlignment ==
    pc = "rows_done" =>
        LET E == Len(row_elements)
            L == Len(FilteredLines)
        IN /\ Len(table_rows) = L
           /\ \A k \in 1..L :
                 table_rows[k] = Row(row_elements[(E - L) + k], FilteredLines[k])

====
